---- MODULE Spec2Model ----
(***************************************************************************)
(* The BLE client component BluetoothClient (src/app/(tabs)/ble.tsx) as a  *)
(* state machine.  React state and refs are the variables; every handler,  *)
(* callback and promise continuation of the component is one action.       *)
(*                                                                         *)
(* Handlers called by the user read the state of the render they belong    *)
(* to, which is the current state when they are called.  A callback that   *)
(* runs later (the scan timer) reads the values its closure captured when  *)
(* the handler ran; those captured values are stored with the callback.    *)
(* The session handlers are operations a caller may invoke in any state:   *)
(* the guards that decide what they do are the ones in their own code.     *)
(***************************************************************************)
EXTENDS Integers, Sequences, FiniteSets, Bags, TLC

\* ----------------------------------------------------------------- bounds
\* handleConnect calls that pass the guard; each creates one subscription
MaxSubs == 2
\* promises awaited at the same time
MaxInFlight == 2
\* advertisingStart events the peripheral has not handled yet
MaxStarting == 2

\* ----------------------------------------------------------------- inputs
Devices == {"P1", "P2"}
NoDevice == "none"
NoSub == 0
NoAlert == "none"
NoValue == "null"
\* what the characteristic can hold when it is read
CharacteristicValues == {NoValue, "ping"}
\* the handler treats every state other than PoweredOn alike
AdapterStates == {"PoweredOn", "PoweredOff"}
NoState == "null"
\* the service and characteristic the client addresses, ble.tsx:20-21
RPI_SERVICE_UUID == "11111111-2222-3333-4444-555555555555"
RPI_CHARACTERISTIC_UUID == "66666666-7777-8888-9999-000000000000"
\* the service and characteristic the peripheral exposes, part_000:4-5
SERVICE_UUID == "12345678-1234-1234-1234-123456789abc"
CHARACTERISTIC_UUID == "87654321-4321-4321-4321-cba987654321"
\* what a platform call is given besides the device: the characteristic it
\* addresses and the base64 text it carries
NoData == [service |-> "", characteristic |-> "", value |-> <<>>]
\* statusMessage keeps the kind of failure a message reports; every message
\* that reports progress or a notice is Info
Info == "info"

VARIABLES
    \* React state, ble.tsx:28-37
    isScanning, foundDevices, connectedDevice, isConnecting,
    permissionsGranted, bluetoothState, statusMessage, dataToSend, receivedData,
    \* refs, ble.tsx:39-40
    deviceRef, disconnectSubscriptionRef,
    \* what the last step called: the Alert.alert it raised and the device it
    \* called cancelConnection on (none when it did not)
    alert, cancelCall,
    \* the platform: the manager's scan, the links, the subscriptions handed
    \* out by device.onDisconnected, disconnect events not yet delivered,
    \* promises not yet settled and scan timers not yet fired
    radioScan, link, subs, notify, inflight, timers,
    \* whether startScan has started a scan pass, and the stopDeviceScan calls
    \* since the last pass started
    scanned, stopCalls,
    \* the peripheral (part_000): the adapter state bleno last reported,
    \* whether advertising is requested, advertisingStart events not yet
    \* handled, the services set, and what the last step of the write handler
    \* logged and passed to its callback
    pState, pAdvertising, pStarting, pServices, pReceived, pResults

reactVars == <<isScanning, foundDevices, connectedDevice, isConnecting,
               permissionsGranted, bluetoothState, statusMessage, dataToSend,
               receivedData>>
refVars == <<deviceRef, disconnectSubscriptionRef>>
scanVars == <<radioScan, timers, stopCalls, scanned>>
linkVars == <<link, subs, notify>>
callVars == <<alert, cancelCall>>
peripheralVars == <<pState, pAdvertising, pStarting, pServices, pReceived,
                    pResults>>
vars == <<reactVars, refVars, callVars, scanVars, linkVars, inflight,
          peripheralVars>>

\* the fields the session state machine of the component is made of
sessionVars == <<connectedDevice, deviceRef, isConnecting, isScanning,
                 disconnectSubscriptionRef, subs>>

\* ---------------------------------------------------------------- helpers
\* a promise the component awaits; ok: the platform can still fulfil it
Task(op, dev, data) == [op |-> op, dev |-> dev, data |-> data, ok |-> TRUE]

Pending == BagToSet(inflight)

Await(t) == inflight (+) SetToBag({t})

Settle(ts, t) == ts (-) SetToBag({t})

HasRoom == BagCardinality(inflight) < MaxInFlight

\* a platform call on a device of ds can only fail from now on
DoomTask(t, ds) ==
    IF t.op # "perm" /\ t.dev \in ds THEN [t EXCEPT !.ok = FALSE] ELSE t

Doom(ts, ds) ==
    [u \in {DoomTask(t, ds) : t \in BagToSet(ts)} |->
        LET same == {t \in BagToSet(ts) : DoomTask(t, ds) = u}
            Sum[S \in SUBSET same] ==
                IF S = {} THEN 0
                ELSE LET x == CHOOSE y \in S : TRUE IN ts[x] + Sum[S \ {x}]
        IN Sum[same]]

SeqElems(s) == {s[i] : i \in 1..Len(s)}

\* the subscriptions device.onDisconnected has handed out so far
SubIds == 1..Len(subs)

\* the subscription sub is registered with the platform and not removed
Live(sub) == sub \in SubIds /\ subs[sub].removes = 0

\* Subscription.remove() on the subscription sub (NoSub: nothing to remove);
\* of a removed subscription only the number of remove() calls is kept
RemoveSub(ss, sub) ==
    IF sub = NoSub THEN ss
    ELSE [ss EXCEPT ![sub] = [dev |-> NoDevice, removes |-> @.removes + 1]]

\* the step raises no alert and calls no cancelConnection
Quiet == alert' = NoAlert /\ cancelCall' = NoDevice

\* subscriptions that get a disconnect event when the links in ds go down
EventsFor(ds) ==
    {s \in SubIds : Live(s) /\ subs[s].dev \in ds /\ link[subs[s].dev]}

\* ------------------------------------------------------------------ codec
\* text is a sequence of code points of the basic plane, surrogates
\* excluded; the initial text of the input, 'Hello from RN!' (ble.tsx:36)
HelloFromRN == <<72, 101, 108, 108, 111, 32, 102, 114, 111, 109, 32, 82, 78, 33>>

\* texts the user types: empty, one to three bytes long in UTF-8, mixed
Payloads == {HelloFromRN, <<>>, <<72>>, <<233>>, <<8364>>, <<72, 233, 8364>>}

\* the '=' that fills the last group of a base64 text
Pad == 64

\* U+FFFD, what a UTF-8 decoder puts in place of bytes that are no text
Replacement == 65533

\* the UTF-8 bytes of one code point
Utf8Char(c) ==
    IF c < 128 THEN <<c>>
    ELSE IF c < 2048 THEN <<192 + (c \div 64), 128 + (c % 64)>>
    ELSE <<224 + (c \div 4096), 128 + ((c \div 64) % 64), 128 + (c % 64)>>

\* Buffer.from(text, 'utf8'): ble.tsx:259
RECURSIVE Utf8Encode(_)
Utf8Encode(cs) ==
    IF cs = <<>> THEN <<>> ELSE Utf8Char(Head(cs)) \o Utf8Encode(Tail(cs))

\* buffer.toString('base64'), as 6-bit digits and Pad: ble.tsx:259
RECURSIVE Base64Encode(_)
Base64Encode(bs) ==
    IF Len(bs) = 0 THEN <<>>
    ELSE IF Len(bs) = 1
    THEN <<bs[1] \div 4, (bs[1] % 4) * 16, Pad, Pad>>
    ELSE IF Len(bs) = 2
    THEN <<bs[1] \div 4, (bs[1] % 4) * 16 + (bs[2] \div 16),
           (bs[2] % 16) * 4, Pad>>
    ELSE <<bs[1] \div 4, (bs[1] % 4) * 16 + (bs[2] \div 16),
           (bs[2] % 16) * 4 + (bs[3] \div 64), bs[3] % 64>>
         \o Base64Encode(SubSeq(bs, 4, Len(bs)))

\* the bytes the platform puts on the air for the base64 text it was given
\* by writeCharacteristicWithResponseForService: ble.tsx:260-264
RECURSIVE Base64Decode(_)
Base64Decode(ds) ==
    IF Len(ds) < 4 THEN <<>>
    ELSE (IF ds[3] = Pad THEN <<ds[1] * 4 + (ds[2] \div 16)>>
          ELSE IF ds[4] = Pad
          THEN <<ds[1] * 4 + (ds[2] \div 16),
                 (ds[2] % 16) * 16 + (ds[3] \div 4)>>
          ELSE <<ds[1] * 4 + (ds[2] \div 16),
                 (ds[2] % 16) * 16 + (ds[3] \div 4),
                 (ds[3] % 4) * 64 + ds[4]>>)
         \o Base64Decode(SubSeq(ds, 5, Len(ds)))

\* b continues a multi-byte UTF-8 sequence
IsContinuation(b) == b >= 128 /\ b < 192

\* c may follow the lead byte b of a three-byte sequence
SecondOk(b, c) ==
    IsContinuation(c) /\ (b = 224 => c >= 160) /\ (b = 237 => c < 160)

\* data.toString('utf8') of the write handler, part_000:39; bytes that are
\* no UTF-8 text of the basic plane decode to Replacement
RECURSIVE Utf8Decode(_)
Utf8Decode(bs) ==
    IF bs = <<>> THEN <<>>
    ELSE LET b == bs[1]
             n == Len(bs)
         IN  IF b < 128 THEN <<b>> \o Utf8Decode(Tail(bs))
             ELSE IF b >= 194 /\ b < 224 /\ n >= 2 /\ IsContinuation(bs[2])
             THEN <<(b - 192) * 64 + (bs[2] - 128)>>
                  \o Utf8Decode(SubSeq(bs, 3, n))
             ELSE IF b >= 224 /\ b < 240 /\ n >= 2 /\ SecondOk(b, bs[2])
             THEN IF n >= 3 /\ IsContinuation(bs[3])
                  THEN <<(b - 224) * 4096 + (bs[2] - 128) * 64 + (bs[3] - 128)>>
                       \o Utf8Decode(SubSeq(bs, 4, n))
                  ELSE <<Replacement>> \o Utf8Decode(SubSeq(bs, 3, n))
             ELSE <<Replacement>> \o Utf8Decode(Tail(bs))

Init ==
    /\ isScanning = FALSE
    /\ foundDevices = <<>>
    /\ connectedDevice = NoDevice
    /\ isConnecting = FALSE
    /\ permissionsGranted = FALSE
    /\ bluetoothState = NoState
    /\ statusMessage = Info
    /\ dataToSend = HelloFromRN
    /\ receivedData = NoValue
    /\ deviceRef = NoDevice
    /\ disconnectSubscriptionRef = NoSub
    /\ alert = NoAlert
    /\ cancelCall = NoDevice
    /\ radioScan = FALSE
    /\ link = [d \in Devices |-> FALSE]
    /\ subs = <<>>
    /\ notify = {}
    /\ inflight = EmptyBag
    /\ timers = {}
    /\ stopCalls = 0
    /\ scanned = FALSE
    /\ pState = "unknown"
    /\ pAdvertising = FALSE
    /\ pStarting = 0
    /\ pServices = {}
    /\ pReceived = <<>>
    /\ pResults = <<>>

\* ------------------------------------------------- adapter monitor, 70-90
\* a state-change handler that cancels the connection and keeps the target
StateOffKeepsTarget ==
    [permissionsGranted |-> FALSE,
     isScanning         |-> FALSE,
     cancel             |-> deviceRef # NoDevice,
     connectedDevice    |-> NoDevice,
     deviceRef          |-> deviceRef,
     foundDevices       |-> <<>>]

\* what the state-change handler writes when the new state is not PoweredOn
\* (ble.tsx:78-88); cancel: whether cancelConnection is called on the target
StateOffUpdate ==
    [permissionsGranted |-> FALSE,
     isScanning         |-> FALSE,
     cancel             |-> deviceRef # NoDevice,
     connectedDevice    |-> NoDevice,
     deviceRef          |-> NoDevice,
     foundDevices       |-> <<>>]

\* manager.onStateChange handler, new state PoweredOn: ble.tsx:73-76; the
\* permission request of checkAndRequestPermissions is left pending
StateChangeOn ==
    /\ Quiet
    /\ bluetoothState # "PoweredOn"
    /\ HasRoom
    /\ bluetoothState' = "PoweredOn"
    /\ statusMessage' = Info
    /\ inflight' = Await(Task("perm", NoDevice, NoData))
    /\ UNCHANGED <<isScanning, foundDevices, connectedDevice, isConnecting,
                   permissionsGranted, dataToSend, receivedData, refVars, scanVars, linkVars>>
    /\ UNCHANGED peripheralVars

\* manager.onStateChange handler, any other state: ble.tsx:73, 77-89.  The
\* radio going away ends the native scan and drops every link.
StateChangeOff(s) ==
    /\ s # "PoweredOn"
    /\ s # bluetoothState
    /\ bluetoothState' = s
    /\ statusMessage' = Info
    /\ permissionsGranted' = StateOffUpdate.permissionsGranted
    /\ isScanning' = StateOffUpdate.isScanning
    /\ cancelCall' = IF StateOffUpdate.cancel THEN deviceRef ELSE NoDevice
    /\ alert' = NoAlert
    /\ connectedDevice' = StateOffUpdate.connectedDevice
    /\ deviceRef' = StateOffUpdate.deviceRef
    /\ foundDevices' = StateOffUpdate.foundDevices
    /\ radioScan' = FALSE
    /\ notify' = notify \cup EventsFor(Devices)
    /\ link' = [d \in Devices |-> FALSE]
    /\ inflight' = Doom(inflight, Devices)
    /\ UNCHANGED <<isConnecting, dataToSend, receivedData,
                   disconnectSubscriptionRef, subs, timers,
                   stopCalls, scanned>>
    /\ UNCHANGED peripheralVars

\* ------------------------------------------------ permission gate, 105-115
\* checkAndRequestPermissions after requestAndroidPermissions resolved
PermissionResolve(t, granted) ==
    /\ t \in Pending
    /\ t.op = "perm"
    /\ inflight' = Settle(inflight, t)
    /\ permissionsGranted' = granted
    /\ statusMessage' = Info
    /\ alert' = IF granted THEN NoAlert ELSE "PermissionsDenied"
    /\ cancelCall' = NoDevice
    /\ UNCHANGED <<isScanning, foundDevices, connectedDevice, isConnecting,
                   bluetoothState, dataToSend, receivedData, refVars,
                   scanVars, linkVars>>
    /\ UNCHANGED peripheralVars

\* checkAndRequestPermissions when the request throws: ble.tsx:111-114
PermissionThrow(t) ==
    /\ Quiet
    /\ t \in Pending
    /\ t.op = "perm"
    /\ inflight' = Settle(inflight, t)
    /\ statusMessage' = "PermError"
    /\ UNCHANGED <<isScanning, foundDevices, connectedDevice, isConnecting,
                   permissionsGranted, bluetoothState, dataToSend, receivedData,
                   refVars, scanVars, linkVars>>
    /\ UNCHANGED peripheralVars

\* --------------------------------------------------------- scanner, 117-166
\* which branch of startScan runs: ble.tsx:118-129
StartScanOutcome ==
    CASE isScanning -> "return"
      [] ~permissionsGranted \/ bluetoothState # "PoweredOn" -> "cannotScan"
      [] connectedDevice # NoDevice -> "alreadyConnected"
      [] OTHER -> "scan"

\* what the setTimeout callback of startScan closes over: the isScanning of
\* the render startScan belongs to (the captured foundDevices only chooses
\* between two notices); current: the timer of the scan pass in progress
TimerCapture == [current |-> TRUE, isScanning |-> isScanning]

\* the timers of earlier scan passes that have not fired yet
Earlier(ts) == {[t EXCEPT !.current = FALSE] : t \in ts}

\* a timer callback that stops the scan without testing anything
TimerGuardAlways(t) == TRUE

\* the test of the timer callback, ble.tsx:160
TimerGuard(t) == t.isScanning

\* an updater that compares the device with the last entry only
AddFoundLastOnly(prevDevices, d) ==
    IF prevDevices # <<>> /\ prevDevices[Len(prevDevices)] = d
    THEN prevDevices ELSE Append(prevDevices, d)

\* setFoundDevices updater of the scan callback, ble.tsx:148-154
AddFound(prevDevices, d) ==
    IF d \in SeqElems(prevDevices) THEN prevDevices ELSE Append(prevDevices, d)

\* startScan: ble.tsx:117-166
StartScan ==
    /\ foundDevices' = IF StartScanOutcome \in {"alreadyConnected", "scan"}
                       THEN <<>> ELSE foundDevices
    /\ alert' = CASE StartScanOutcome = "cannotScan" -> "CannotScan"
                  [] StartScanOutcome = "alreadyConnected" -> "AlreadyConnected"
                  [] OTHER -> NoAlert
    /\ cancelCall' = NoDevice
    /\ IF StartScanOutcome = "scan"
       THEN /\ isScanning' = TRUE
            /\ statusMessage' = Info
            /\ radioScan' = TRUE
            /\ stopCalls' = 0
            /\ scanned' = TRUE
            /\ timers' = Earlier(timers) \cup {TimerCapture}
       ELSE UNCHANGED <<isScanning, statusMessage, scanVars>>
    /\ UNCHANGED <<connectedDevice, isConnecting, permissionsGranted,
                   bluetoothState, dataToSend, receivedData, refVars, linkVars,
                   inflight>>
    /\ UNCHANGED peripheralVars

\* scan callback with a device: ble.tsx:146-155
ScanResult(d) ==
    /\ Quiet
    /\ radioScan
    /\ foundDevices' = AddFound(foundDevices, d)
    /\ UNCHANGED <<isScanning, connectedDevice, isConnecting, permissionsGranted,
                   bluetoothState, statusMessage, dataToSend, receivedData,
                   refVars, scanVars, linkVars, inflight>>
    /\ UNCHANGED peripheralVars

\* scan callback with an error: ble.tsx:139-144; the native scan has ended
ScanError ==
    /\ Quiet
    /\ radioScan
    /\ statusMessage' = "ScanError"
    /\ isScanning' = FALSE
    /\ radioScan' = FALSE
    /\ UNCHANGED <<foundDevices, connectedDevice, isConnecting,
                   permissionsGranted, bluetoothState, dataToSend, receivedData,
                   refVars, timers, stopCalls, scanned, linkVars,
                   inflight>>
    /\ UNCHANGED peripheralVars

\* the setTimeout callback of startScan fires: ble.tsx:159-165
ScanTimeout(t) ==
    /\ Quiet
    /\ t \in timers
    /\ timers' = timers \ {t}
    /\ IF TimerGuard(t)
       THEN /\ radioScan' = FALSE
            /\ stopCalls' = stopCalls + 1
            /\ isScanning' = FALSE
            /\ statusMessage' = Info
       ELSE UNCHANGED <<radioScan, stopCalls, isScanning, statusMessage>>
    /\ UNCHANGED <<foundDevices, connectedDevice, isConnecting,
                   permissionsGranted, bluetoothState, dataToSend, receivedData,
                   refVars, scanned, linkVars, inflight>>
    /\ UNCHANGED peripheralVars

\* --------------------------------------------------------- session, 168-250
\* the early return of handleConnect: ble.tsx:169
HandleConnectBusy == isConnecting \/ connectedDevice # NoDevice

\* handleConnect up to its first await: ble.tsx:168-203
HandleConnect(d) ==
    /\ Quiet
    /\ d \in SeqElems(foundDevices)
    /\ IF HandleConnectBusy
       THEN UNCHANGED <<reactVars, refVars, scanVars, linkVars, inflight>>
       ELSE /\ Len(subs) < MaxSubs
            /\ HasRoom
            /\ isConnecting' = TRUE
            /\ statusMessage' = Info
            /\ IF isScanning
               THEN /\ radioScan' = FALSE
                    /\ stopCalls' = stopCalls + 1
                    /\ isScanning' = FALSE
               ELSE UNCHANGED <<radioScan, stopCalls, isScanning>>
            /\ deviceRef' = d
            /\ subs' = Append(RemoveSub(subs, disconnectSubscriptionRef),
                              [dev |-> d, removes |-> 0])
            /\ disconnectSubscriptionRef' = Len(subs) + 1
            /\ notify' = notify \ {disconnectSubscriptionRef}
            /\ inflight' = Await(Task("connect", d, NoData))
            /\ UNCHANGED <<foundDevices, connectedDevice, permissionsGranted,
                           bluetoothState, dataToSend, receivedData,
                           link, timers, scanned>>
    /\ UNCHANGED peripheralVars

\* device.connect resolved: ble.tsx:203-206
ConnectResolve(t) ==
    /\ Quiet
    /\ t \in Pending
    /\ t.op = "connect"
    /\ t.ok
    /\ link' = [link EXCEPT ![t.dev] = TRUE]
    /\ statusMessage' = Info
    /\ inflight' = Settle(inflight, t) (+) SetToBag({[t EXCEPT !.op = "discover"]})
    /\ UNCHANGED <<isScanning, foundDevices, connectedDevice, isConnecting,
                   permissionsGranted, bluetoothState, dataToSend, receivedData,
                   refVars, scanVars, subs, notify>>
    /\ UNCHANGED peripheralVars

\* discoverAllServicesAndCharacteristics resolved: ble.tsx:206-209, 221-223
DiscoverResolve(t) ==
    /\ Quiet
    /\ t \in Pending
    /\ t.op = "discover"
    /\ t.ok
    /\ link[t.dev]
    /\ connectedDevice' = t.dev
    /\ statusMessage' = Info
    /\ foundDevices' = <<>>
    /\ isConnecting' = FALSE
    /\ inflight' = Settle(inflight, t)
    /\ UNCHANGED <<isScanning, permissionsGranted, bluetoothState, dataToSend,
                   receivedData, refVars, scanVars, linkVars>>
    /\ UNCHANGED peripheralVars

\* device.connect or the discovery rejected: catch and finally, ble.tsx:210-223
ConnectFail(t) ==
    /\ Quiet
    /\ t \in Pending
    /\ t.op \in {"connect", "discover"}
    /\ statusMessage' = "ConnectionFailed"
    /\ subs' = RemoveSub(subs, disconnectSubscriptionRef)
    /\ notify' = notify \ {disconnectSubscriptionRef}
    /\ disconnectSubscriptionRef' = NoSub
    /\ deviceRef' = IF deviceRef # NoDevice /\ deviceRef = t.dev
                    THEN NoDevice ELSE deviceRef
    /\ isConnecting' = FALSE
    /\ inflight' = Settle(inflight, t)
    /\ UNCHANGED <<isScanning, foundDevices, connectedDevice, permissionsGranted,
                   bluetoothState, dataToSend, receivedData,
                   scanVars, link>>
    /\ UNCHANGED peripheralVars

\* the platform loses the link to d without being asked
LinkDrop(d) ==
    /\ Quiet
    /\ link[d]
    /\ link' = [link EXCEPT ![d] = FALSE]
    /\ notify' = notify \cup EventsFor({d})
    /\ inflight' = Doom(inflight, {d})
    /\ UNCHANGED <<reactVars, refVars, scanVars, subs>>
    /\ UNCHANGED peripheralVars

\* a callback that removes its subscription and keeps the reference to it
OnDisconnectedKeepsRef ==
    [connectedDevice |-> NoDevice,
     deviceRef |-> NoDevice,
     subs |-> RemoveSub(subs, disconnectSubscriptionRef),
     disconnectSubscriptionRef |-> disconnectSubscriptionRef]

\* what the onDisconnected callback writes: ble.tsx:192-198
OnDisconnectedUpdate ==
    [connectedDevice |-> NoDevice,
     deviceRef |-> NoDevice,
     subs |-> RemoveSub(subs, disconnectSubscriptionRef),
     disconnectSubscriptionRef |-> NoSub]

\* the callback given to device.onDisconnected runs: ble.tsx:190-201
OnDisconnected(s) ==
    /\ Quiet
    /\ s \in notify
    /\ Live(s)
    /\ statusMessage' = Info
    /\ connectedDevice' = OnDisconnectedUpdate.connectedDevice
    /\ deviceRef' = OnDisconnectedUpdate.deviceRef
    /\ subs' = OnDisconnectedUpdate.subs
    /\ disconnectSubscriptionRef' = OnDisconnectedUpdate.disconnectSubscriptionRef
    /\ notify' = notify \ {s, disconnectSubscriptionRef}
    /\ UNCHANGED <<isScanning, foundDevices, isConnecting, permissionsGranted,
                   bluetoothState, dataToSend, receivedData,
                   scanVars, link, inflight>>
    /\ UNCHANGED peripheralVars

\* handleDisconnect up to its await: ble.tsx:226-231, 247-249
HandleDisconnect ==
    /\ IF deviceRef # NoDevice
       THEN /\ HasRoom
            /\ isConnecting' = TRUE
            /\ statusMessage' = Info
            /\ inflight' = Await(Task("cancel", deviceRef, NoData))
            /\ cancelCall' = deviceRef
       ELSE /\ statusMessage' = Info
            /\ cancelCall' = NoDevice
            /\ UNCHANGED <<isConnecting, inflight>>
    /\ alert' = NoAlert
    /\ UNCHANGED <<isScanning, foundDevices, connectedDevice, permissionsGranted,
                   bluetoothState, dataToSend, receivedData, refVars,
                   scanVars, linkVars>>
    /\ UNCHANGED peripheralVars

\* cancelConnection resolved: ble.tsx:231-233, 244-246; the link is closed
CancelResolve(t) ==
    /\ Quiet
    /\ t \in Pending
    /\ t.op = "cancel"
    /\ t.ok
    /\ link' = [link EXCEPT ![t.dev] = FALSE]
    /\ notify' = notify \cup EventsFor({t.dev})
    /\ isConnecting' = FALSE
    /\ inflight' = Doom(Settle(inflight, t), {t.dev})
    /\ UNCHANGED <<isScanning, foundDevices, connectedDevice, permissionsGranted,
                   bluetoothState, statusMessage, dataToSend, receivedData,
                   refVars, scanVars, subs>>
    /\ UNCHANGED peripheralVars

\* what the catch of handleDisconnect writes: ble.tsx:236-243
DisconnectFallback ==
    [connectedDevice |-> NoDevice,
     deviceRef |-> NoDevice,
     subs |-> RemoveSub(subs, disconnectSubscriptionRef),
     disconnectSubscriptionRef |-> NoSub]

\* cancelConnection rejected: ble.tsx:234-246
CancelReject(t) ==
    /\ Quiet
    /\ t \in Pending
    /\ t.op = "cancel"
    /\ statusMessage' = "DisconnectError"
    /\ connectedDevice' = DisconnectFallback.connectedDevice
    /\ deviceRef' = DisconnectFallback.deviceRef
    /\ subs' = DisconnectFallback.subs
    /\ disconnectSubscriptionRef' = DisconnectFallback.disconnectSubscriptionRef
    /\ notify' = notify \ {disconnectSubscriptionRef}
    /\ isConnecting' = FALSE
    /\ inflight' = Settle(inflight, t)
    /\ UNCHANGED <<isScanning, foundDevices, permissionsGranted, bluetoothState,
                   dataToSend, receivedData, scanVars, link>>
    /\ UNCHANGED peripheralVars

\* ------------------------------------------------------ send / read, 252-290
\* a test that looks at the reference only
SendReadyRefOnly == deviceRef # NoDevice

\* the test at the top of sendData: ble.tsx:253
SendReady == deviceRef # NoDevice /\ connectedDevice # NoDevice

\* the test at the top of readCharacteristicData: ble.tsx:273
ReadReady == deviceRef # NoDevice /\ connectedDevice # NoDevice

\* a catch that writes again
AfterWriteFailureRetry(t) == Settle(inflight, t) (+) SetToBag({[t EXCEPT !.ok = TRUE]})

\* the promises left pending once the write t has failed: the catch of
\* sendData (ble.tsx:266-269) starts nothing
AfterWriteFailure(t) == Settle(inflight, t)

\* Buffer.from(value || '', 'base64').toString('utf8') of ble.tsx:283, on the
\* payload the characteristic holds (NoValue: characteristic.value is null)
ReadDecode(v) == IF v = NoValue THEN "" ELSE v

\* sendData up to its await: ble.tsx:252-264
SendData ==
    /\ IF SendReady
       THEN /\ HasRoom
            /\ statusMessage' = Info
            /\ inflight' = Await(Task("write", deviceRef,
                                  [service |-> RPI_SERVICE_UUID,
                                   characteristic |-> RPI_CHARACTERISTIC_UUID,
                                   value |-> Base64Encode(Utf8Encode(dataToSend))]))
            /\ alert' = NoAlert
       ELSE /\ alert' = "NoDeviceConnected"
            /\ UNCHANGED <<statusMessage, inflight>>
    /\ cancelCall' = NoDevice
    /\ UNCHANGED <<isScanning, foundDevices, connectedDevice, isConnecting,
                   permissionsGranted, bluetoothState, dataToSend, receivedData,
                   refVars, scanVars, linkVars>>
    /\ UNCHANGED peripheralVars

\* the write was acknowledged: ble.tsx:265
WriteResolved(t) ==
    /\ Quiet
    /\ t \in Pending
    /\ t.op = "write"
    /\ t.ok
    /\ link[t.dev]
    /\ statusMessage' = Info
    /\ inflight' = Settle(inflight, t)
    /\ UNCHANGED <<isScanning, foundDevices, connectedDevice, isConnecting,
                   permissionsGranted, bluetoothState, dataToSend, receivedData,
                   refVars, scanVars, linkVars>>

\* the write was acknowledged by a peripheral that is not looked at
WriteResolve(t) ==
    /\ WriteResolved(t)
    /\ UNCHANGED peripheralVars

\* the write failed: ble.tsx:266-269
WriteRejected(t) ==
    /\ Quiet
    /\ t \in Pending
    /\ t.op = "write"
    /\ statusMessage' = "SendError"
    /\ inflight' = AfterWriteFailure(t)
    /\ UNCHANGED <<isScanning, foundDevices, connectedDevice, isConnecting,
                   permissionsGranted, bluetoothState, dataToSend, receivedData,
                   refVars, scanVars, linkVars>>

\* the write failed, whatever the peripheral
WriteReject(t) ==
    /\ WriteRejected(t)
    /\ UNCHANGED peripheralVars

\* readCharacteristicData up to its await: ble.tsx:272-282
ReadCharacteristicData ==
    /\ IF ReadReady
       THEN /\ HasRoom
            /\ statusMessage' = Info
            /\ inflight' = Await(Task("read", deviceRef,
                                  [service |-> RPI_SERVICE_UUID,
                                   characteristic |-> RPI_CHARACTERISTIC_UUID,
                                   value |-> <<>>]))
            /\ alert' = NoAlert
       ELSE /\ alert' = "NoDeviceConnected"
            /\ UNCHANGED <<statusMessage, inflight>>
    /\ cancelCall' = NoDevice
    /\ UNCHANGED <<isScanning, foundDevices, connectedDevice, isConnecting,
                   permissionsGranted, bluetoothState, dataToSend, receivedData,
                   refVars, scanVars, linkVars>>
    /\ UNCHANGED peripheralVars

\* the read returned the characteristic, holding v: ble.tsx:283-285
ReadResolve(t, v) ==
    /\ Quiet
    /\ t \in Pending
    /\ t.op = "read"
    /\ t.ok
    /\ link[t.dev]
    /\ receivedData' = ReadDecode(v)
    /\ statusMessage' = Info
    /\ inflight' = Settle(inflight, t)
    /\ UNCHANGED <<isScanning, foundDevices, connectedDevice, isConnecting,
                   permissionsGranted, bluetoothState, dataToSend, refVars, scanVars, linkVars>>
    /\ UNCHANGED peripheralVars

\* the read failed: ble.tsx:286-289
ReadReject(t) ==
    /\ Quiet
    /\ t \in Pending
    /\ t.op = "read"
    /\ statusMessage' = "ReadError"
    /\ inflight' = Settle(inflight, t)
    /\ UNCHANGED <<isScanning, foundDevices, connectedDevice, isConnecting,
                   permissionsGranted, bluetoothState, dataToSend, receivedData,
                   refVars, scanVars, linkVars>>
    /\ UNCHANGED peripheralVars

\* ------------------------------------------------------------ specification
\* the user edits the text to send: ble.tsx:334
SetDataToSend(p) ==
    /\ Quiet
    /\ p # dataToSend
    /\ dataToSend' = p
    /\ alert' = NoAlert
    /\ UNCHANGED <<isScanning, foundDevices, connectedDevice, isConnecting,
                   permissionsGranted, bluetoothState, statusMessage,
                   receivedData, refVars, cancelCall, scanVars, linkVars,
                   inflight>>
    /\ UNCHANGED peripheralVars

\* ---------------------------------------------------------- the peripheral
\* everything of the client
clientVars == <<reactVars, refVars, callVars, scanVars, linkVars, inflight>>

\* states the peripheral's adapter reports
PeripheralStates == {"poweredOn", "poweredOff", "unauthorized"}

\* bytes a central writes: texts, and bytes that are no UTF-8 text
WriteBytes ==
    {<<>>, <<72>>, <<195, 169>>, <<226, 130, 172>>, <<72, 105>>,
     <<255>>, <<195>>, <<226, 130>>, <<72, 255>>}

\* what onWriteRequest passes to its callback: part_000:42
WriteResultChecked(text) ==
    IF Replacement \in SeqElems(text) THEN "RESULT_UNLIKELY_ERROR"
    ELSE "RESULT_SUCCESS"

WriteResult(text) == "RESULT_SUCCESS"

\* the state handler of the peripheral keeps advertising in state s:
\* part_000:14
KeepsAdvertising(s) == s = "poweredOn"

\* bleno.on('stateChange'): part_000:11-24
PStateChange(s) ==
    /\ s \in PeripheralStates
    /\ s # pState
    /\ pState' = s
    /\ IF KeepsAdvertising(s)
       THEN /\ pStarting < MaxStarting
            /\ pAdvertising' = TRUE
            /\ pStarting' = pStarting + 1
       ELSE /\ pAdvertising' = FALSE
            /\ UNCHANGED pStarting
    /\ pResults' = <<>>
    /\ UNCHANGED <<pServices, pReceived>>
    /\ UNCHANGED clientVars

\* bleno.on('advertisingStart'): part_000:27-55
PAdvertisingStart(error) ==
    /\ pStarting > 0
    /\ pStarting' = pStarting - 1
    /\ IF error
       THEN UNCHANGED pServices
       ELSE pServices' = {[service |-> SERVICE_UUID,
                           characteristic |-> CHARACTERISTIC_UUID]}
    /\ pResults' = <<>>
    /\ UNCHANGED <<pState, pAdvertising, pReceived>>
    /\ UNCHANGED clientVars

\* onWriteRequest of the characteristic: part_000:38-43
OnWriteRequest(data) ==
    /\ pReceived' = Utf8Decode(data)
    /\ pResults' = <<WriteResult(Utf8Decode(data))>>
    /\ UNCHANGED <<pState, pAdvertising, pStarting, pServices>>

\* some central writes to the characteristic the peripheral exposes
PWriteRequest(data) ==
    /\ pServices # {}
    /\ OnWriteRequest(data)
    /\ UNCHANGED clientVars

\* the peripheral exposes the characteristic the write t names
WriteRouted(t) ==
    [service |-> t.data.service, characteristic |-> t.data.characteristic]
        \in pServices

\* the client's write reaches the peripheral: its handler runs when the
\* peripheral exposes the characteristic named, and the write fails otherwise
GattWrite(t) ==
    /\ t \in Pending
    /\ t.op = "write"
    /\ t.ok
    /\ link[t.dev]
    /\ IF WriteRouted(t)
       THEN /\ OnWriteRequest(Base64Decode(t.data.value))
            /\ WriteResolved(t)
       ELSE /\ WriteRejected(t)
            /\ UNCHANGED peripheralVars

\* the adapter changes state
Adapter ==
    \/ StateChangeOn
    \/ \E s \in AdapterStates : StateChangeOff(s)

\* the permission request settles
Permission ==
    \/ \E t \in Pending, granted \in BOOLEAN : PermissionResolve(t, granted)
    \/ \E t \in Pending : PermissionThrow(t)

\* the user scans and the scan reports
Scanning ==
    \/ StartScan
    \/ \E d \in Devices : ScanResult(d)
    \/ ScanError
    \/ \E t \in timers : ScanTimeout(t)

\* the user connects and the connection attempt settles
Connecting ==
    \/ \E d \in Devices : HandleConnect(d)
    \/ \E t \in Pending : ConnectResolve(t)
    \/ \E t \in Pending : DiscoverResolve(t)
    \/ \E t \in Pending : ConnectFail(t)

\* the link is lost or the user disconnects
Disconnecting ==
    \/ \E d \in Devices : LinkDrop(d)
    \/ \E s \in 1..MaxSubs : OnDisconnected(s)
    \/ HandleDisconnect
    \/ \E t \in Pending : CancelResolve(t)
    \/ \E t \in Pending : CancelReject(t)

\* the user writes and reads the characteristic
Transfer ==
    \/ SendData
    \/ \E t \in Pending : WriteResolve(t)
    \/ \E t \in Pending : WriteReject(t)
    \/ ReadCharacteristicData
    \/ \E t \in Pending, v \in CharacteristicValues : ReadResolve(t, v)
    \/ \E t \in Pending : ReadReject(t)

\* the whole component
Next == Adapter \/ Permission \/ Scanning \/ Connecting \/ Disconnecting \/ Transfer

Spec == Init /\ [][Next]_vars

\* the component while nobody disconnects and nothing is written or read
NextScan == Adapter \/ Permission \/ Scanning \/ Connecting

SpecScan == Init /\ [][NextScan]_vars

\* the user finds the peripherals: the scan neither fails nor times out
Discovery ==
    \/ \E t \in Pending, granted \in BOOLEAN : PermissionResolve(t, granted)
    \/ StartScan
    \/ \E d \in Devices : ScanResult(d)

\* the component while nothing is written or read
NextSession == Adapter \/ Discovery \/ Connecting \/ Disconnecting

SpecSession == Init /\ [][NextSession]_vars

\* the link is lost under a session
LinkLoss ==
    \/ \E d \in Devices : LinkDrop(d)
    \/ \E s \in 1..MaxSubs : OnDisconnected(s)

\* the component while the adapter stays on and only the peripheral ends a session
NextTransfer == StateChangeOn \/ Discovery \/ Connecting \/ LinkLoss \/ Transfer

SpecTransfer == Init /\ [][NextTransfer]_vars

\* the peripheral alone
NextPeripheral ==
    \/ \E s \in PeripheralStates : PStateChange(s)
    \/ \E error \in BOOLEAN : PAdvertisingStart(error)
    \/ \E data \in WriteBytes : PWriteRequest(data)

SpecPeripheral == Init /\ [][NextPeripheral]_vars

\* the client reaches a session and writes to the peripheral
NextRoundTrip ==
    \/ StateChangeOn
    \/ Discovery
    \/ \E d \in Devices : HandleConnect(d)
    \/ \E t \in Pending : ConnectResolve(t)
    \/ \E t \in Pending : DiscoverResolve(t)
    \/ \E p \in Payloads : SetDataToSend(p)
    \/ SendData
    \/ \E t \in Pending : GattWrite(t)
    \/ \E s \in PeripheralStates : PStateChange(s)
    \/ \E error \in BOOLEAN : PAdvertisingStart(error)

SpecRoundTrip == Init /\ [][NextRoundTrip]_vars

\* ------------------------------------------------------------------ claims
\* C1: in every reachable state deviceRef is set exactly when the session is
\* connecting, discovering, ready or disconnecting (isConnecting is true or
\* connectedDevice is set); in particular connectedDevice is never set while
\* deviceRef is null.
C1_TargetIffSession ==
    (deviceRef # NoDevice) <=> (isConnecting \/ connectedDevice # NoDevice)

\* C2: when a connect and the scan timer meet a scan in progress, in either
\* order, exactly one of them stops the scan: a scan pass sees at most one
\* stopDeviceScan, a connect that finds the scan running leaves the session
\* connecting with the scan stopped, and a timer that fires when the session
\* has left the scanning state changes nothing.
C2_ConnectOrTimeout ==
    [][/\ stopCalls' <= 1
       /\ \A d \in Devices :
            (HandleConnect(d) /\ isScanning /\ ~isConnecting
                /\ connectedDevice = NoDevice)
            => (isConnecting' /\ ~isScanning' /\ ~radioScan'
                /\ stopCalls' = stopCalls + 1)
       /\ \A t \in timers :
            (ScanTimeout(t) /\ ~isScanning)
            => UNCHANGED <<isScanning, isConnecting, connectedDevice, deviceRef,
                           radioScan, stopCalls>>]_vars

\* the timer of the scan pass in progress has fired after handleConnect
\* stopped the scan, or before it did
C2_BothDelivered ==
    /\ scanned
    /\ ~(\E t \in timers : t.current)
    /\ isConnecting
    /\ ~isScanning
    /\ stopCalls = 1

\* C3: once the timer of a scan pass has fired and nothing was connected to,
\* the session is idle again: isScanning is false and the radio scan has
\* stopped.
C3_TimeoutEndsScan ==
    (/\ scanned
     /\ ~(\E t \in timers : t.current)
     /\ Len(subs) = 0)
    => (~isScanning /\ ~radioScan)

\* C4: the unsolicited-disconnect callback and handleDisconnect with its
\* fallback, in any interleaving, leave the session disconnected
\* (connectedDevice, deviceRef and the subscription reference cleared) with
\* remove() called exactly once on the subscription, never twice; a
\* notification that finds the session already disconnected changes none of
\* connectedDevice, deviceRef, isConnecting and isScanning.
C4_DisconnectOnce ==
    [][/\ \A s \in 1..Len(subs') : subs'[s].removes <= 1
       /\ ((\E s \in notify : OnDisconnected(s))
            \/ (\E t \in Pending : CancelReject(t)))
          => /\ connectedDevice' = NoDevice
             /\ deviceRef' = NoDevice
             /\ disconnectSubscriptionRef' = NoSub
             /\ disconnectSubscriptionRef # NoSub
                => subs'[disconnectSubscriptionRef].removes = 1
       /\ \A s \in notify :
            (OnDisconnected(s) /\ connectedDevice = NoDevice
                /\ deviceRef = NoDevice)
            => UNCHANGED <<connectedDevice, deviceRef, isConnecting,
                           isScanning>>]_vars

\* a session that was ready lost its link while the cancelConnection of
\* handleDisconnect was pending, and the callback has run
C4_CallbackDuringDisconnect ==
    /\ connectedDevice = NoDevice
    /\ deviceRef = NoDevice
    /\ disconnectSubscriptionRef = NoSub
    /\ foundDevices = <<>>
    /\ ~isScanning
    /\ permissionsGranted
    /\ \E t \in Pending : t.op = "cancel" /\ ~t.ok
    /\ \E s \in SubIds : subs[s].removes = 1

\* C5: whenever a scan pass that was started has ended (isScanning is false
\* again), the radio scan is stopped and manager.stopDeviceScan was called
\* exactly once for that pass.
C5_StoppedExactlyOnce ==
    (scanned /\ ~isScanning) => (~radioScan /\ stopCalls = 1)

\* C6: when the adapter changes to a state other than PoweredOn, the handler
\* leaves connectedDevice and deviceRef null, scanning off and permissions
\* not granted, and calls cancelConnection on the previous target exactly
\* when there was one, whatever was in progress.
C6_AdapterOffResets ==
    [][\A s \in AdapterStates :
        StateChangeOff(s)
        => /\ connectedDevice' = NoDevice
           /\ deviceRef' = NoDevice
           /\ ~isScanning'
           /\ ~permissionsGranted'
           /\ cancelCall' = deviceRef]_vars

\* the adapter went off during a connection attempt and the handler has
\* called cancelConnection on the target
C6_OffWhileConnecting ==
    /\ bluetoothState = "PoweredOff"
    /\ cancelCall # NoDevice
    /\ isConnecting
    /\ deviceRef = NoDevice

\* C7: startScan starts a scan only when the adapter is PoweredOn,
\* permissions are granted and there is no target device, and a startScan
\* during a running scan changes no state.
C7_StartScanGuarded ==
    [][StartScan
       => /\ (isScanning' /\ ~isScanning)
             => /\ bluetoothState = "PoweredOn"
                /\ permissionsGranted
                /\ deviceRef = NoDevice
                /\ connectedDevice = NoDevice
          /\ isScanning
             => UNCHANGED <<reactVars, refVars, scanVars, linkVars,
                            inflight>>]_vars

\* C8: in every reachable state a scan is not running while a connection
\* attempt is in flight or a target device exists.
C8_NoScanDuringSession ==
    ~(isScanning /\ (isConnecting \/ deviceRef # NoDevice
                     \/ connectedDevice # NoDevice))

\* the number of writes among the pending promises ts
WritesPending(ts) ==
    BagCardinality([u \in {t \in BagToSet(ts) : t.op = "write"} |-> ts[u]])

\* the number of reads and writes among the pending promises ts
TransfersPending(ts) ==
    BagCardinality([u \in {t \in BagToSet(ts) : t.op \in {"write", "read"}}
                       |-> ts[u]])

\* C9: sendData and readCharacteristicData issue a write or a read exactly
\* when deviceRef and connectedDevice are both set; called in any other state
\* they raise the not-connected alert, issue no platform call and change no
\* state.
C9_TransferOnlyWhenReady ==
    [][(SendData \/ ReadCharacteristicData)
       => IF deviceRef # NoDevice /\ connectedDevice # NoDevice
          THEN /\ TransfersPending(inflight') = TransfersPending(inflight) + 1
               /\ alert' = NoAlert
          ELSE /\ alert' = "NoDeviceConnected"
               /\ UNCHANGED <<reactVars, refVars, scanVars, linkVars,
                              inflight>>]_vars

\* sendData or readCharacteristicData was called during a connection
\* attempt, when only deviceRef was set, and was refused
C9_RefusedWhileConnecting ==
    /\ alert = "NoDeviceConnected"
    /\ deviceRef # NoDevice
    /\ connectedDevice = NoDevice
    /\ isConnecting

\* C10: a failed write or read leaves connectedDevice, deviceRef,
\* isConnecting, isScanning and the disconnect subscription as they were and
\* starts no further attempt, and a sendData call that passes its test makes
\* exactly one write attempt.
C10_FailureKeepsSession ==
    [][/\ \A t \in Pending :
            (WriteReject(t) \/ ReadReject(t))
            => /\ UNCHANGED sessionVars
               /\ TransfersPending(inflight') = TransfersPending(inflight) - 1
       /\ (SendData /\ deviceRef # NoDevice /\ connectedDevice # NoDevice)
          => WritesPending(inflight') = WritesPending(inflight) + 1]_vars

\* a write failed and the session is still ready, with nothing pending
C10_ReadyAfterSendError ==
    /\ statusMessage = "SendError"
    /\ deviceRef # NoDevice
    /\ connectedDevice = deviceRef
    /\ ~isConnecting
    /\ inflight = EmptyBag

\* C11: when a read on a ready session returns a characteristic that holds
\* no value, the call reports a read failure and delivers no received data;
\* the session stays ready.
C11_NoValueIsReadFailure ==
    [][\A t \in Pending :
        (ReadResolve(t, NoValue) /\ deviceRef # NoDevice
            /\ connectedDevice # NoDevice)
        => /\ statusMessage' = "ReadError"
           /\ receivedData' = receivedData
           /\ UNCHANGED <<connectedDevice, deviceRef>>]_vars

\* C12: when device.connect or the discovery fails, handleConnect leaves the
\* session disconnected: deviceRef and connectedDevice null, the disconnect
\* subscription removed and its reference cleared, no subscription left
\* registered, isConnecting false and a connection error in the status.
C12_FailureReleasesTarget ==
    [][\A t \in Pending :
        ConnectFail(t)
        => /\ deviceRef' = NoDevice
           /\ connectedDevice' = NoDevice
           /\ disconnectSubscriptionRef' = NoSub
           /\ \A s \in 1..Len(subs') : subs'[s].removes > 0
           /\ ~isConnecting'
           /\ statusMessage' = "ConnectionFailed"]_vars

\* the platform settles a pending connect or discovery
SettleConnect ==
    \/ \E t \in Pending : ConnectResolve(t)
    \/ \E t \in Pending : DiscoverResolve(t)
    \/ \E t \in Pending : ConnectFail(t)

\* the platform settles a pending cancelConnection
SettleCancel ==
    \/ \E t \in Pending : CancelResolve(t)
    \/ \E t \in Pending : CancelReject(t)

\* the platform delivers a disconnect event it has queued
Delivery == \E s \in 1..MaxSubs : OnDisconnected(s)

\* SpecSession with a platform that settles every promise and delivers every
\* event queued for a registered subscription
SpecSessionFair ==
    /\ SpecSession
    /\ WF_vars(SettleConnect)
    /\ WF_vars(SettleCancel)
    /\ WF_vars(Delivery)

\* handleDisconnect has called cancelConnection on a connected session
DisconnectRequested ==
    /\ connectedDevice # NoDevice
    /\ deviceRef = connectedDevice
    /\ isConnecting
    /\ \E t \in Pending : t.op = "cancel" /\ t.dev = deviceRef

\* C13: after handleDisconnect on a connected session the session eventually
\* is disconnected (connectedDevice null, deviceRef null, isConnecting
\* false), whether cancelConnection resolves or rejects.
C13_EventuallyDisconnected ==
    DisconnectRequested
    ~> (connectedDevice = NoDevice /\ deviceRef = NoDevice /\ ~isConnecting)

\* the write the client asks for carries the text it was given
CodecRoundTrip ==
    \A p \in Payloads : Utf8Decode(Base64Decode(Base64Encode(Utf8Encode(p)))) = p

\* C14: a text sent on a ready session is written to the service and the
\* characteristic the peripheral exposes, the peripheral's write handler
\* decodes exactly that text, and the write is acknowledged with success
C14_RoundTrip ==
    [][/\ (SendData /\ SendReady)
          => \E t \in Pending' :
                /\ t.op = "write"
                /\ Utf8Decode(Base64Decode(t.data.value)) = dataToSend
       /\ \A t \in Pending :
            (GattWrite(t) /\ pServices # {})
            => /\ WriteRouted(t)
               /\ pReceived' = Utf8Decode(Base64Decode(t.data.value))
               /\ pResults' = <<"RESULT_SUCCESS">>
               /\ statusMessage' = Info]_vars

\* C15: the peripheral answers every write once, with RESULT_SUCCESS, after
\* decoding it, whatever the bytes; it asks for advertising when its adapter
\* enters poweredOn, again on every return to poweredOn, and has advertising
\* stopped in every other state
C15_PeripheralAcksAndAdvertises ==
    [][/\ \A data \in WriteBytes :
            PWriteRequest(data)
            => /\ pResults' = <<"RESULT_SUCCESS">>
               /\ pReceived' = Utf8Decode(data)
       /\ \A s \in PeripheralStates :
            PStateChange(s)
            => IF s = "poweredOn"
               THEN pAdvertising' /\ pStarting' = pStarting + 1
               ELSE ~pAdvertising' /\ pStarting' = pStarting
       /\ pAdvertising' <=> (pState' = "poweredOn")]_vars

\* the peripheral answered bytes that are no text, and advertises again
\* after having left poweredOn
C15_UndecodableAcked ==
    /\ Replacement \in SeqElems(pReceived)
    /\ pResults = <<"RESULT_SUCCESS">>
    /\ pState = "poweredOn"
    /\ pAdvertising
    /\ pStarting = 2

\* C16: when the discovery of an attempt resolves after the session was
\* cancelled (the target reference was cleared meanwhile), nothing is
\* connected: connectedDevice keeps its value
C16_LateCompletionIgnored ==
    [][\A t \in Pending :
        (DiscoverResolve(t) /\ deviceRef = NoDevice)
        => connectedDevice' = connectedDevice]_vars

\* connection attempts whose connect or discovery has not settled
Attempts == {t \in Pending : t.op \in {"connect", "discover"}}

\* C17: at most one connection attempt is in flight, and a handleConnect
\* called while an attempt is in flight or a device is connected changes
\* nothing, also after a handleDisconnect that ran during the attempt
C17_OneAttemptInFlight ==
    [][/\ \A d \in Devices :
            (HandleConnect(d) /\ (Attempts # {} \/ connectedDevice # NoDevice))
            => UNCHANGED <<reactVars, refVars, scanVars, linkVars, inflight>>
       /\ Cardinality(Attempts') <= 1
       /\ \A t \in Attempts' : inflight'[t] = 1]_vars

\* subscriptions registered and not removed
LiveSubs == {s \in SubIds : Live(s)}

\* no target device and no connection attempt in flight
AtRest ==
    /\ deviceRef = NoDevice
    /\ Attempts = {}

\* at rest, with nothing awaited and no disconnect event on its way
Settled ==
    /\ AtRest
    /\ connectedDevice = NoDevice
    /\ ~isConnecting
    /\ Pending = {}
    /\ notify = {}

\* once every event was delivered no subscription is left
NoLeakWhenSettled == Settled => LiveSubs = {}

\* C18: at most one disconnect subscription is registered and not removed,
\* and none is when the component is at rest
C18_NoSubscriptionLeak ==
    /\ Cardinality(LiveSubs) <= 1
    /\ AtRest => LiveSubs = {}

\* what discoverAllServicesAndCharacteristics finds on a device: P1 has the
\* configured service and characteristic, P2 advertises the service and has
\* another characteristic in it
Gatt(d) ==
    IF d = "P1"
    THEN {[service |-> RPI_SERVICE_UUID, characteristic |-> RPI_CHARACTERISTIC_UUID]}
    ELSE {[service |-> RPI_SERVICE_UUID, characteristic |-> CHARACTERISTIC_UUID]}

\* the discovery on d located the configured service and characteristic
Located(d) ==
    [service |-> RPI_SERVICE_UUID, characteristic |-> RPI_CHARACTERISTIC_UUID]
        \in Gatt(d)

\* C19: a session becomes ready only if the discovery located the configured
\* service and the configured characteristic; otherwise the attempt ends as
\* a connection failure
C19_ReadyOnlyIfLocated ==
    [][\A t \in Pending :
        (DiscoverResolve(t) /\ ~Located(t.dev))
        => /\ connectedDevice' # t.dev
           /\ statusMessage' = "ConnectionFailed"]_vars

\* C20: permissions count as granted only while the adapter is PoweredOn,
\* also when a permission request settles after the adapter left PoweredOn
C20_GrantedOnlyWhenOn ==
    permissionsGranted => bluetoothState = "PoweredOn"

\* C21: foundDevices never holds the same device id twice: a scan result for
\* an id already in the list leaves the list as it is, and a scan result
\* for a new id appends it at the end
C21_FoundDevicesDistinct ==
    [][/\ \A i, j \in 1..Len(foundDevices') :
            i # j => foundDevices'[i] # foundDevices'[j]
       /\ \A d \in Devices :
            ScanResult(d)
            => IF \E i \in 1..Len(foundDevices) : foundDevices[i] = d
               THEN foundDevices' = foundDevices
               ELSE foundDevices' = Append(foundDevices, d)]_vars

\* both devices are listed, in the order found, and the scan still reports
C21_BothListedWhileScanning ==
    /\ foundDevices = <<"P2", "P1">>
    /\ radioScan
    /\ isScanning

====
